---- MODULE Spec2Model ----
(***************************************************************************)
(* A model of the Telegram signal relay (main.py): the classification of   *)
(* channel messages, the reconciliation of edits against the table         *)
(* matched_call_texts, the construction of the forwarded text and the      *)
(* fan-out to the subscribers stored in the SQLite table subscribed_users; *)
(* and of the older relay (bot.py), which forwards new messages to the     *)
(* users listed in NOTIFY_USER_IDS.                                        *)
(*                                                                         *)
(* Handlers are coroutines on one asyncio event loop.  An action of the    *)
(* model is the code a handler runs between two suspension points: a       *)
(* handler is suspended only while it awaits user_client.get_entity        *)
(* (pc = "lookup") or bot_client.send_message (pc = "send"); the SQLite    *)
(* calls and the dictionary accesses are synchronous.                      *)
(*                                                                         *)
(* Texts are sequences of one-character strings.                           *)
(***************************************************************************)
EXTENDS Integers, Sequences, FiniteSets, TLC

(***************************************************************************)
(* Characters and strings                                                  *)
(***************************************************************************)
LowerLetters ==
    {"a","b","c","d","e","f","g","h","i","j","k","l","m",
     "n","o","p","q","r","s","t","u","v","w","x","y","z"}

UpperToLower ==
    ("A" :> "a") @@ ("B" :> "b") @@ ("C" :> "c") @@ ("D" :> "d") @@
    ("E" :> "e") @@ ("F" :> "f") @@ ("G" :> "g") @@ ("H" :> "h") @@
    ("I" :> "i") @@ ("J" :> "j") @@ ("K" :> "k") @@ ("L" :> "l") @@
    ("M" :> "m") @@ ("N" :> "n") @@ ("O" :> "o") @@ ("P" :> "p") @@
    ("Q" :> "q") @@ ("R" :> "r") @@ ("S" :> "s") @@ ("T" :> "t") @@
    ("U" :> "u") @@ ("V" :> "v") @@ ("W" :> "w") @@ ("X" :> "x") @@
    ("Y" :> "y") @@ ("Z" :> "z")

Digits == {"0","1","2","3","4","5","6","7","8","9"}

\* The whitespace str.strip() removes, among the ASCII characters of the texts.
Whitespace == {" ", "\t", "\n", "\r", "\f"}

\* re.IGNORECASE: characters are compared after case folding.
Fold(c) == IF c \in DOMAIN UpperToLower THEN UpperToLower[c] ELSE c

\* \w of the re module: letters, digits and the underscore.
IsWordChar(c) == Fold(c) \in LowerLetters \cup Digits \cup {"_"}

\* \b at offset i of s (0 = before the first character, Len(s) = after the
\* last): the characters on the two sides differ in being word characters;
\* outside the string counts as a non-word character.
WordBoundary(s, i) ==
    LET left  == i >= 1 /\ IsWordChar(s[i])
        right == i < Len(s) /\ IsWordChar(s[i + 1])
    IN  left # right

\* The literal w (lower case) matches s at offset i, ignoring case.
LiteralAt(s, i, w) ==
    /\ i + Len(w) <= Len(s)
    /\ \A j \in 1..Len(w) : Fold(s[i + j]) = w[j]

\* str.strip(): the leading and trailing whitespace removed.
RECURSIVE LStrip(_)
LStrip(s) ==
    IF s # <<>> /\ Head(s) \in Whitespace THEN LStrip(Tail(s)) ELSE s

RECURSIVE RStrip(_)
RStrip(s) ==
    IF s # <<>> /\ s[Len(s)] \in Whitespace
    THEN RStrip(SubSeq(s, 1, Len(s) - 1))
    ELSE s

strip(s) == RStrip(LStrip(s))

\* html.escape(text) with quote=True.
HtmlEntity(c) ==
    CASE c = "&"  -> <<"&","a","m","p",";">>
      [] c = "<"  -> <<"&","l","t",";">>
      [] c = ">"  -> <<"&","g","t",";">>
      [] c = "\"" -> <<"&","q","u","o","t",";">>
      [] c = "'"  -> <<"&","#","x","2","7",";">>
      [] OTHER    -> <<c>>

RECURSIVE escape_html(_)
escape_html(text) ==
    IF text = <<>> THEN <<>>
    ELSE HtmlEntity(Head(text)) \o escape_html(Tail(text))

(***************************************************************************)
(* The classifier: CALL_PATTERN.search(message_text)                       *)
(*   r'\b(XAUUSD.*(?:buy|sell)|(?:buy|sell))\b', re.IGNORECASE             *)
(***************************************************************************)
Instrument == <<"x","a","u","u","s","d">>

DirectionalKeywords == { <<"b","u","y">>, <<"s","e","l","l">> }

\* (?:buy|sell) at offset j, followed by the closing \b.
KeywordThenBoundary(s, j) ==
    \E w \in DirectionalKeywords :
        LiteralAt(s, j, w) /\ WordBoundary(s, j + Len(w))

\* The first alternative at offset i: XAUUSD, then .* (any characters but a
\* newline), then the keyword, then \b.
InstrumentAlternative(s, i) ==
    /\ LiteralAt(s, i, Instrument)
    /\ \E j \in (i + Len(Instrument))..Len(s) :
          /\ \A m \in (i + Len(Instrument) + 1)..j : s[m] # "\n"
          /\ KeywordThenBoundary(s, j)

CALL_PATTERN_search(s) ==
    \E i \in 0..Len(s) :
        /\ WordBoundary(s, i)
        /\ (InstrumentAlternative(s, i) \/ KeywordThenBoundary(s, i))

(***************************************************************************)
(* The classifier of bot.py: CALL_PATTERN.match(message_text)              *)
(*   r'^XAUUSD.*\b(BUY|Sell)\b', re.IGNORECASE                             *)
(***************************************************************************)
bot_CALL_PATTERN_match(s) ==
    /\ LiteralAt(s, 0, Instrument)
    /\ \E j \in Len(Instrument)..Len(s) :
          /\ \A m \in (Len(Instrument) + 1)..j : s[m] # "\n"
          /\ WordBoundary(s, j)
          /\ KeywordThenBoundary(s, j)

(***************************************************************************)
(* Inputs of the model                                                     *)
(***************************************************************************)
\* The number of handler invocations that reach the fan-out in one run, for
\* each of the specifications that bound them.
MaxTasks == 2
MaxTasksE2E == 3
MaxTasksFanout == 1
MaxTasksInterleave == 2
MaxTasksOrigin == 1
MaxTasksFault == 1
MaxTasksPrice == 1
MaxTasksConfig == 1
MaxTasksLive == 1

\* None where a text is expected: no text is a sequence of this shape.
None == <<"None">>

\* An absent forward header, an absent event, an absent lookup result and an
\* absent key.
NoFwd == [kind |-> "none"]
NoEvent == [type |-> "none"]
NoResult == [type |-> "none"]
NoKey == <<0, 0>>


\* Messages are identified by (chat_id, message id).
ChatIds == {100}
MessageIds == {1, 2}
Keys == ChatIds \X MessageIds

\* event.message.message of the events: None (a message without text), two
\* signals equal up to surrounding whitespace, a text without a keyword and
\* a whitespace-only text.
TxtBuy == <<"b","u","y"," ","1">>
TxtBuyPadded == <<" ","b","u","y"," ","1","\n">>
TxtHold == <<"h","o","l","d">>
TxtBlank == <<" ">>
TxtXauBuy == <<"X","A","U","U","S","D"," ","b","u","y">>
Messages == {None, TxtBuy, TxtBuyPadded, TxtHold, TxtBlank}

\* Texts put together from up to three pieces: the instrument, a keyword in
\* either case, letters that make a keyword part of a longer word, a space
\* and a line break.
Pieces ==
    { <<"X","A","U","U","S","D">>, <<"b","u","y">>, <<"S","E","L","L">>,
      <<"r","e">>, <<" ">>, <<"\n">> }

Texts ==
    {<<>>} \cup Pieces \cup {a \o b : a, b \in Pieces}
           \cup {a \o b \o c : a, b, c \in Pieces}

\* event.message.fwd_from: NoFwd, or a forward header carrying a name or an
\* identifier to look up.
NameSrc == <<"S","r","c">>
FwdByName == [kind |-> "fwd", from_name |-> NameSrc, from_id |-> None]
FwdById == [kind |-> "fwd", from_name |-> None, from_id |-> <<"7">>]
FwdHidden == [kind |-> "fwd", from_name |-> None, from_id |-> None]
FwdEmptyName == [kind |-> "fwd", from_name |-> <<>>, from_id |-> <<"7">>]
FwdInputs == {NoFwd, FwdByName, FwdById, FwdHidden, FwdEmptyName}

\* What user_client.get_entity(from_id) returns or raises.
NameTitle == <<"T","&","T">>
NameAnn == <<"A","n","n">>
NameLee == <<"L","e","e">>
EntityChannel == [type |-> "Channel", title |-> NameTitle]
EntityChannelNoTitle == [type |-> "Channel", title |-> None]
EntityUser == [type |-> "User", first_name |-> NameAnn, last_name |-> None]
EntityUserFull == [type |-> "User", first_name |-> NameAnn, last_name |-> NameLee]
EntityUserNoName == [type |-> "User", first_name |-> None, last_name |-> None]
EntityChat == [type |-> "Chat"]
LookupError == [type |-> "raise", error |-> "ValueError"]
LookupErrorRPC == [type |-> "raise", error |-> "RPCError"]
LookupResults ==
    { EntityChannel, EntityChannelNoTitle, EntityUser, EntityUserFull,
      EntityUserNoName, EntityChat, LookupError, LookupErrorRPC }

\* The users that talk to the bot.
UserIds == {1, 2, 3}

\* What bot_client.send_message returns ("ok") or raises.  The three telethon
\* errors are RPCErrors; every kind is a subclass of Exception.
RPCErrors == {"UsernameNotOccupiedError", "PeerIdInvalidError", "RPCError"}
SendErrors == RPCErrors \cup {"ValueError"}
SendOutcomes == {"ok"} \cup SendErrors

\* The environment variables the scripts read.
ConfigNames ==
    { "TELEGRAM_API_ID", "TELEGRAM_API_HASH", "BOT_TOKEN", "TARGET_CHANNELS",
      "NOTIFY_USER_IDS", "GOLD_API_KEY" }

\* What os.getenv returns for a name: None when the variable is not set, the
\* empty string, a usable value, or (for NOTIFY_USER_IDS) a list with an
\* entry that is no integer.
EnvUnset == None
EnvEmpty == <<>>
EnvSet == <<"s","e","t">>
EnvNotIntegers == <<"1",",","x">>
EnvValues(name) ==
    {EnvUnset, EnvEmpty, EnvSet}
        \cup (IF name = "NOTIFY_USER_IDS" THEN {EnvNotIntegers} ELSE {})

\* The names in the list that the script hands to all(...).
Validated(s) ==
    { "TELEGRAM_API_ID", "TELEGRAM_API_HASH", "BOT_TOKEN", "TARGET_CHANNELS" }
        \cup (IF s = "bot.py" THEN {"NOTIFY_USER_IDS"} ELSE {})

\* The outcomes of user_client.start() and bot_client.start().
StartOutcomes == {"ok", "SessionPasswordNeededError", "RPCError"}

\* NOTIFY_USER_IDS of bot.py, as parsed from the environment.
NOTIFY_USER_IDS == <<1, 2, 3>>

\* The chat of the monitored channel, as event.chat.
ChatOf(chat_id) == [id |-> chat_id, title |-> <<"G","o","l","d">>, username |-> None]

(***************************************************************************)
(* State                                                                   *)
(***************************************************************************)
VARIABLES
    matched_call_texts, \* the dict: a function from the tracked keys to texts
    subscribed_users,   \* the rows of the table subscribed_users
    tasks,              \* the handler invocations that stored a text, in the
                        \* order they started, each with its locals
    ev,                 \* the channel event whose handler the last step
                        \* started, as ObserveNew and ObserveEdit describe
                        \* it, or NoEvent after any other step
    classified,         \* history: the keys of the new-message events whose
                        \* text was not blank and matched CALL_PATTERN
    script,             \* the script that runs: "main.py" or "bot.py"
    environ,            \* what os.getenv returns for each of ConfigNames
    process,            \* "starting" until the script has read its
                        \* configuration and started its clients, then
                        \* "running" with the handlers registered, or
                        \* "exited"
    db                  \* "ok", or "unavailable" while sqlite3 raises on
                        \* subscribers.db (locked or unreadable file)

vars == <<matched_call_texts, subscribed_users, tasks, ev, classified, script,
          environ, process, db>>

\* What no handler writes.
Environment == <<script, environ, process, db>>

\* Truth of a value of os.getenv, as all(...) takes it.
Truthy(value) == value # None /\ value # <<>>

\* not all([...]) of the module level is false: no exit(1) there.
ConfigValidatedAny(s) == \E name \in Validated(s) : Truthy(environ[name])
ConfigValidated(s) == \A name \in Validated(s) : Truthy(environ[name])

\* int(uid.strip()) of bot.py raises on no entry of NOTIFY_USER_IDS.
UserIdsParsed(s) == s = "bot.py" => environ["NOTIFY_USER_IDS"] # EnvNotIntegers

\* The script s has registered its handlers and receives events.
Running(s) == script = s /\ process = "running"

\* sqlite3.connect or cursor.execute raises.
StoreRaises == db # "ok"

(***************************************************************************)
(* Subscriber store                                                        *)
(***************************************************************************)
\* The rows in rowid order: user_id INTEGER PRIMARY KEY is the rowid.
RECURSIVE Ascending(_)
Ascending(S) ==
    IF S = {} THEN <<>>
    ELSE LET m == CHOOSE u \in S : \A v \in S : u <= v
         IN  <<m>> \o Ascending(S \ {m})

get_all_subscribed_users == Ascending(subscribed_users)

is_user_subscribed(user_id) == user_id \in subscribed_users

\* A variant with a plain INSERT: a row with the key of a row of the table
\* raises sqlite3.IntegrityError.
InsertRaisesOnConflict(user_id) == user_id \in subscribed_users

\* INSERT OR IGNORE: a row that conflicts with the PRIMARY KEY is skipped and
\* nothing is raised.
InsertRaises(user_id) == FALSE

\* INSERT OR IGNORE
add_subscribed_user(user_id) == subscribed_users \cup {user_id}

\* A variant whose DELETE has no WHERE clause.
remove_subscribed_user_all(user_id) == {}

\* DELETE ... WHERE user_id = ?
remove_subscribed_user(user_id) == subscribed_users \ {user_id}

(***************************************************************************)
(* build_forward_text                                                      *)
(***************************************************************************)
\* str() of a natural number.
DigitOf == <<"0","1","2","3","4","5","6","7","8","9">>

RECURSIVE Decimal(_)
Decimal(n) ==
    IF n < Len(DigitOf) THEN <<DigitOf[n + 1]>>
    ELSE Decimal(n \div Len(DigitOf)) \o <<DigitOf[(n % Len(DigitOf)) + 1]>>

get_channel_display_name(chat) ==
    IF chat.title \notin {None, <<>>} THEN <<"*","*">> \o chat.title \o <<"*","*">>
    ELSE IF chat.username \notin {None, <<>>} THEN <<"@">> \o chat.username
    ELSE <<"C","h","a","n","n","e","l"," ","I","D"," ">> \o Decimal(chat.id)

\* fwd_name after the lookup returned `result`.
EntityName(result) ==
    CASE result.type = "raise" -> <<"U","n","k","n","o","w","n">>
      [] result.type = "Channel" ->
            IF result.title \notin {None, <<>>} THEN result.title
            ELSE <<"U","n","k","n","o","w","n"," ","C","h","a","n","n","e","l">>
      [] result.type = "User" ->
            IF result.first_name \notin {None, <<>>}
            THEN IF result.last_name \notin {None, <<>>}
                 THEN result.first_name \o <<" ">> \o result.last_name
                 ELSE result.first_name
            ELSE <<"U","n","k","n","o","w","n"," ","U","s","e","r">>
      [] OTHER -> None

\* The await of get_entity is reached only with an identifier and no name.
NeedsLookup(fwd_info) ==
    /\ fwd_info # NoFwd
    /\ fwd_info.from_name \in {None, <<>>}
    /\ fwd_info.from_id # None

\* A variant without the last test, which replaces a missing name.
ResolveNameNoFallback(fwd_info, result) ==
    IF fwd_info.from_name \notin {None, <<>>} THEN fwd_info.from_name
    ELSE IF fwd_info.from_id # None THEN EntityName(result)
    ELSE None

\* fwd_name: the name of the forward header, the looked-up name, or "Unknown".
ResolveName(fwd_info, result) ==
    LET fwd_name ==
            IF fwd_info.from_name \notin {None, <<>>} THEN fwd_info.from_name
            ELSE IF fwd_info.from_id # None THEN EntityName(result)
            ELSE None
    IN  IF fwd_name \in {None, <<>>} THEN <<"U","n","k","n","o","w","n">> ELSE fwd_name

\* A variant that gives every text the header of a new signal.
build_forward_text_as_new(chat_id, message_text, is_edit, fwd_info, fwd_name) ==
    [ header    |-> "New Signal",
      channel   |-> get_channel_display_name(ChatOf(chat_id)),
      body      |-> escape_html(message_text),
      forwarded |-> IF fwd_info = NoFwd THEN None ELSE escape_html(fwd_name) ]

\* The text sent: the header, the channel, the escaped body and, for a
\* forwarded message, the escaped name of its origin.
build_forward_text(chat_id, message_text, is_edit, fwd_info, fwd_name) ==
    [ header    |-> IF is_edit THEN "Edited Signal" ELSE "New Signal",
      channel   |-> get_channel_display_name(ChatOf(chat_id)),
      body      |-> escape_html(message_text),
      forwarded |-> IF fwd_info = NoFwd THEN None ELSE escape_html(fwd_name) ]

\* The local forward_text of a handler that has built it: a handler keeps
\* fwd_name, the one part of the text its event does not determine.
forward_text(t) ==
    build_forward_text(t.key[1], t.message_text, t.handler = "on_edited_message",
                       t.fwd_from, t.fwd_name)

(***************************************************************************)
(* Handlers                                                                *)
(***************************************************************************)
\* event.message.message or ""
OrEmpty(message) == IF message = None THEN <<>> ELSE message

\* A variant that catches the errors of telethon only.
ExceptRPCError(e) == e \in RPCErrors

\* except Exception: every kind of error send_message raises is caught.
ExceptException(e) == e \in SendErrors

\* A variant that reads the table again for every recipient.
LoopRecipientsReread(t) == get_all_subscribed_users

\* The list the for loop of forward_to_subscribers iterates over.
LoopRecipients(t) == t.subscribed_users

\* A variant that sends again to a recipient whose send failed.
RecipientIndexRetrying(t) ==
    Cardinality({n \in 1..Len(t.report) : t.report[n].result = "ok"}) + 1

\* The position of the for loop: every attempt, sent or failed, moves it on.
RecipientIndex(t) == Len(t.report) + 1

\* A variant without the early return on an empty list of recipients.
StartForwardNoReturn(t) ==
    [t EXCEPT !.subscribed_users = get_all_subscribed_users, !.pc = "send"]

\* forward_to_subscribers up to its first await: the recipients are read
\* once; with none the function returns and the handler ends.
StartForward(t) ==
    IF StoreRaises
    THEN \* get_all_subscribed_users raises; nothing on the way up catches it
         [t EXCEPT !.pc = "raised"]
    ELSE LET users == get_all_subscribed_users
         IN  [t EXCEPT !.subscribed_users = users,
                       !.pc = IF users = <<>> THEN "done" ELSE "send"]

\* The handler from its call of build_forward_text to its next await.
StartBuild(t) ==
    IF NeedsLookup(t.fwd_from)
    THEN [t EXCEPT !.pc = "lookup"]
    ELSE StartForward([t EXCEPT !.fwd_name =
            IF t.fwd_from = NoFwd THEN None ELSE ResolveName(t.fwd_from, NoResult)])

NewTask(handler, key, message_text, fwd_from) ==
    [ handler |-> handler, key |-> key, message_text |-> message_text,
      fwd_from |-> fwd_from, pc |-> "start", fwd_name |-> None,
      from_entity |-> NoResult,
      subscribed_users |-> <<>>, report |-> <<>> ]

\* dict assignment
Store(d, key, value) ==
    [k \in DOMAIN d \cup {key} |-> IF k = key THEN value ELSE d[k]]

\* A variant that stores the text before it tests the pattern.
on_new_message_stores_first(key, message, fwd_from) ==
    LET message_text == OrEmpty(message)
    IN  /\ IF strip(message_text) = <<>>
           THEN UNCHANGED <<matched_call_texts, tasks>>
           ELSE /\ matched_call_texts' = Store(matched_call_texts, key, message_text)
                /\ IF ~CALL_PATTERN_search(message_text)
                   THEN UNCHANGED tasks
                   ELSE tasks' = Append(tasks,
                       StartBuild(NewTask("on_new_message", key, message_text, fwd_from)))
        /\ UNCHANGED subscribed_users

on_new_message(key, message, fwd_from) ==
    LET message_text == OrEmpty(message)
    IN  /\ IF strip(message_text) = <<>> \/ ~CALL_PATTERN_search(message_text)
           THEN UNCHANGED <<matched_call_texts, tasks>>
           ELSE /\ matched_call_texts' = Store(matched_call_texts, key, message_text)
                /\ tasks' = Append(tasks,
                       StartBuild(NewTask("on_new_message", key, message_text, fwd_from)))
        /\ UNCHANGED subscribed_users

\* A variant that compares the texts as they are.
SameTextExact(new_text, old_text) == new_text = old_text

\* new_text.strip() == old_text.strip()
SameText(new_text, old_text) == strip(new_text) = strip(old_text)

\* A variant that leaves the stored text as it is.
KeepStored(d, key, new_text) == d

\* matched_call_texts[key] = new_text
UpdateStored(d, key, new_text) == Store(d, key, new_text)

\* The handler from the comparison on, for a key the dict holds.
EditTracked(key, new_text, fwd_from) ==
    IF SameText(new_text, matched_call_texts[key])
    THEN UNCHANGED <<matched_call_texts, tasks>>
    ELSE /\ matched_call_texts' = UpdateStored(matched_call_texts, key, new_text)
         /\ tasks' = Append(tasks,
                StartBuild(NewTask("on_edited_message", key, new_text, fwd_from)))

\* A variant that takes an edit of an unknown message for a new message when
\* its text matches the pattern.
on_edited_message_adopts(key, message, fwd_from) ==
    /\ IF key \notin DOMAIN matched_call_texts
       THEN IF CALL_PATTERN_search(OrEmpty(message))
            THEN /\ matched_call_texts' = Store(matched_call_texts, key, OrEmpty(message))
                 /\ tasks' = Append(tasks,
                        StartBuild(NewTask("on_edited_message", key, OrEmpty(message), fwd_from)))
            ELSE UNCHANGED <<matched_call_texts, tasks>>
       ELSE EditTracked(key, OrEmpty(message), fwd_from)
    /\ UNCHANGED subscribed_users

\* A variant that tests the pattern again on an edit and drops the edit when
\* the new text does not match.
on_edited_message_reclassifies(key, message, fwd_from) ==
    /\ IF key \notin DOMAIN matched_call_texts \/ ~CALL_PATTERN_search(OrEmpty(message))
       THEN UNCHANGED <<matched_call_texts, tasks>>
       ELSE EditTracked(key, OrEmpty(message), fwd_from)
    /\ UNCHANGED subscribed_users

\* A variant that has not stored the new text when it first suspends.
on_edited_message_stores_late(key, message, fwd_from) ==
    /\ IF key \notin DOMAIN matched_call_texts \/ SameText(OrEmpty(message), matched_call_texts[key])
       THEN UNCHANGED <<matched_call_texts, tasks>>
       ELSE /\ UNCHANGED matched_call_texts
            /\ tasks' = Append(tasks,
                   StartBuild(NewTask("on_edited_message", key, OrEmpty(message), fwd_from)))
    /\ UNCHANGED subscribed_users

on_edited_message(key, message, fwd_from) ==
    /\ IF key \notin DOMAIN matched_call_texts
       THEN UNCHANGED <<matched_call_texts, tasks>>
       ELSE LET old_text == matched_call_texts[key]
                new_text == OrEmpty(message)
            IN  IF SameText(new_text, old_text)
                THEN UNCHANGED <<matched_call_texts, tasks>>
                ELSE /\ matched_call_texts' = UpdateStored(matched_call_texts, key, new_text)
                     /\ tasks' = Append(tasks,
                            StartBuild(NewTask("on_edited_message", key, new_text, fwd_from)))
    /\ UNCHANGED subscribed_users

\* get_entity returns or raises: the text is built and the fan-out starts.
LookupReturn(i, result) ==
    /\ i \in 1..Len(tasks)
    /\ tasks[i].pc = "lookup"
    /\ LET t == tasks[i]
       IN  tasks' = [tasks EXCEPT ![i] = StartForward([t EXCEPT
                !.from_entity = result,
                !.fwd_name = ResolveName(t.fwd_from, result)])]
    /\ UNCHANGED <<matched_call_texts, subscribed_users>>

\* A variant whose except clause leaves the loop.
SendReturnBreaks(i, outcome) ==
    /\ i \in 1..Len(tasks)
    /\ tasks[i].pc = "send"
    /\ RecipientIndex(tasks[i]) \in 1..Len(LoopRecipients(tasks[i]))
    /\ LET t == tasks[i]
           n == RecipientIndex(t)
           users == LoopRecipients(t)
           report == Append(t.report,
                        [user_id |-> users[n],
                         result |-> IF outcome = "ok" THEN "ok" ELSE "error"])
       IN  tasks' = [tasks EXCEPT ![i] =
               [t EXCEPT !.report = report,
                         !.pc = IF outcome # "ok" /\ ~ExceptException(outcome) THEN "raised"
                                ELSE IF n >= Len(users) \/ outcome # "ok" THEN "done"
                                ELSE "send"]]
    /\ UNCHANGED <<matched_call_texts, subscribed_users>>

\* send_message to the current recipient returns or raises; the loop goes on
\* to the next recipient, or the handler ends.
SendReturn(i, outcome) ==
    /\ i \in 1..Len(tasks)
    /\ tasks[i].pc = "send"
    /\ RecipientIndex(tasks[i]) \in 1..Len(LoopRecipients(tasks[i]))
    /\ LET t == tasks[i]
           n == RecipientIndex(t)
           users == LoopRecipients(t)
           report == Append(t.report,
                        [user_id |-> users[n],
                         result |-> IF outcome = "ok" THEN "ok" ELSE "error"])
       IN  tasks' = [tasks EXCEPT ![i] =
               [t EXCEPT !.report = report,
                         !.pc = IF outcome # "ok" /\ ~ExceptException(outcome) THEN "raised"
                                ELSE IF n >= Len(users) THEN "done"
                                ELSE "send"]]
    /\ UNCHANGED <<matched_call_texts, subscribed_users>>

\* /start: the membership test and the insert, up to the await of respond.
start_handler(user_id) ==
    /\ subscribed_users' = IF ~StoreRaises /\ ~is_user_subscribed(user_id)
                           THEN add_subscribed_user(user_id)
                           ELSE subscribed_users
    /\ UNCHANGED <<matched_call_texts, tasks>>

\* A variant that forgets the tracked messages when a user unsubscribes.
callback_query_handler_forgets(user_id, data) ==
    /\ subscribed_users' = IF /\ data = "unsubscribe_me"
                              /\ ~StoreRaises
                              /\ is_user_subscribed(user_id)
                           THEN remove_subscribed_user(user_id)
                           ELSE subscribed_users
    /\ matched_call_texts' = IF data = "unsubscribe_me" THEN << >> ELSE matched_call_texts
    /\ UNCHANGED tasks

\* The inline button "Unsubscribe", up to the await of answer.
callback_query_handler(user_id, data) ==
    /\ subscribed_users' = IF /\ data = "unsubscribe_me"
                              /\ ~StoreRaises
                              /\ is_user_subscribed(user_id)
                           THEN remove_subscribed_user(user_id)
                           ELSE subscribed_users
    /\ UNCHANGED <<matched_call_texts, tasks>>

CallbackData == {"get_xauusd_price", "unsubscribe_me"}

(***************************************************************************)
(* fetch_xauusd_price                                                      *)
(***************************************************************************)
\* What requests.get meets: a connection that fails, a status that
\* raise_for_status rejects, or a 2xx response whose body is a JSON object
\* with a price, a JSON object without one (or with null), JSON that is no
\* object, or no JSON at all.
PriceText == <<"1","9","5","0">>
RespTransportError == [kind |-> "ConnectionError"]
RespStatusError == [kind |-> "response", ok |-> FALSE]
RespPrice == [kind |-> "response", ok |-> TRUE, body |-> "object", price |-> PriceText]
RespNoPrice == [kind |-> "response", ok |-> TRUE, body |-> "object", price |-> None]
RespNotObject == [kind |-> "response", ok |-> TRUE, body |-> "array"]
RespNotJson == [kind |-> "response", ok |-> TRUE, body |-> "not JSON"]
Responses ==
    { RespTransportError, RespStatusError, RespPrice, RespNoPrice,
      RespNotObject, RespNotJson }

PriceReturn(price) == [type |-> "return", price |-> price, requests |-> 1]
PriceRaise(error) == [type |-> "raise", error |-> error, requests |-> 1]

\* The ways the one call of requests.get and the code after it can end:
\* except requests.exceptions.RequestException covers the transport errors,
\* the HTTPError of raise_for_status and, from requests 2.27 on, the error
\* of response.json(); before 2.27 that error is a ValueError, and
\* data.get on a body that is no object raises AttributeError.
fetch_xauusd_price(response) ==
    CASE response.kind = "ConnectionError" -> {PriceReturn(None)}
      [] ~response.ok                      -> {PriceReturn(None)}
      [] response.body = "not JSON"        -> {PriceReturn(None), PriceRaise("ValueError")}
      [] response.body = "array"           -> {PriceRaise("AttributeError")}
      [] OTHER                             -> {PriceReturn(response.price)}

\* event.answer of the branch "get_xauusd_price": the price, or the request
\* to try again later, as an alert to the user who pressed the button.
price_answer(user_id, price) ==
    [ to    |-> user_id,
      text  |-> IF price # None THEN "Current XAUUSD Price" ELSE "Error fetching XAUUSD price. Please try again later.",
      price |-> price,
      alert |-> TRUE ]

(***************************************************************************)
(* bot.py                                                                  *)
(***************************************************************************)
\* The text handler() of bot.py sends.
bot_forward_text(t) ==
    [ header    |-> "New Call",
      channel   |-> get_channel_display_name(ChatOf(t.key[1])),
      body      |-> escape_html(t.message_text),
      forwarded |-> t.fwd_from # NoFwd ]

\* The except clause of the send loop of bot.py that catches e.
bot_ExceptClause(e) ==
    CASE e = "UsernameNotOccupiedError" -> "except UsernameNotOccupiedError"
      [] e = "PeerIdInvalidError"       -> "except PeerIdInvalidError"
      [] e \in RPCErrors                -> "except RPCError"
      [] e \in SendErrors               -> "except Exception"
      [] OTHER                          -> "none"

\* handler() of bot.py up to its first await: a text that is not blank and
\* matches the pattern is sent to the users of NOTIFY_USER_IDS in turn.
bot_handler(key, message, fwd_from) ==
    LET message_text == OrEmpty(message)
    IN  /\ IF strip(message_text) = <<>> \/ ~bot_CALL_PATTERN_match(message_text)
           THEN UNCHANGED tasks
           ELSE tasks' = Append(tasks,
                   [NewTask("handler", key, message_text, fwd_from) EXCEPT
                       !.subscribed_users = NOTIFY_USER_IDS,
                       !.pc = IF NOTIFY_USER_IDS = <<>> THEN "done" ELSE "send"])
        /\ UNCHANGED <<matched_call_texts, subscribed_users>>

\* send_message of bot.py returns or raises.
bot_SendReturn(i, outcome) ==
    /\ i \in 1..Len(tasks)
    /\ tasks[i].pc = "send"
    /\ LET t == tasks[i]
           n == Len(t.report) + 1
           report == Append(t.report,
                        [user_id |-> NOTIFY_USER_IDS[n],
                         result |-> IF outcome = "ok" THEN "ok" ELSE "error"])
       IN  tasks' = [tasks EXCEPT ![i] =
               [t EXCEPT !.report = report,
                         !.pc = IF outcome # "ok" /\ bot_ExceptClause(outcome) = "none"
                                THEN "raised"
                                ELSE IF n >= Len(NOTIFY_USER_IDS) THEN "done"
                                ELSE "send"]]
    /\ UNCHANGED <<matched_call_texts, subscribed_users>>

(***************************************************************************)
(* Specification                                                           *)
(***************************************************************************)
\* The dict is empty at start; the table subscribed_users outlives the
\* process, so any set of subscribers may be there.
InitOver(users) ==
    /\ matched_call_texts = << >>
    /\ subscribed_users \in SUBSET users
    /\ tasks = <<>>
    /\ ev = NoEvent
    /\ classified = {}
    /\ script = "main.py"
    /\ environ = [name \in ConfigNames |-> EnvSet]
    /\ process = "running"
    /\ db = "ok"

\* bot.py starts: it has neither the dict nor the table.
bot_Init ==
    /\ matched_call_texts = << >>
    /\ subscribed_users = {}
    /\ tasks = <<>>
    /\ ev = NoEvent
    /\ classified = {}
    /\ script = "bot.py"
    /\ environ = [name \in ConfigNames |-> EnvSet]
    /\ process = "running"
    /\ db = "ok"

\* What the last step was, seen from outside the handler: the kind of the
\* event and how its text relates to the state the handler found.
\*   call:    the text is not blank and matches CALL_PATTERN
\*   blank:   the text is empty after strip()
\*   tracked: the dict holds the key
\*   same:    the text equals the stored text after strip() on both sides
ObserveNew(message) ==
    LET text == OrEmpty(message)
    IN  [ type |-> "NewMessage",
          call |-> strip(text) # <<>> /\ CALL_PATTERN_search(text) ]

ObserveEdit(key, message) ==
    LET text == OrEmpty(message)
        tracked == key \in DOMAIN matched_call_texts
        same == tracked /\ strip(text) = strip(matched_call_texts[key])
    IN  [ type      |-> "MessageEdited",
          call      |-> strip(text) # <<>> /\ CALL_PATTERN_search(text),
          blank     |-> strip(text) = <<>>,
          tracked   |-> tracked,
          same      |-> same,
          \* the text is the stored text, character by character
          identical |-> tracked /\ text = matched_call_texts[key],
          \* the message and its new text, for an edit that changes the text
          key       |-> IF tracked /\ ~same THEN key ELSE NoKey,
          message   |-> IF tracked /\ ~same THEN message ELSE None ]

NewMessage(key, message, fwd_from) ==
    /\ Running("main.py") /\ UNCHANGED Environment
    /\ on_new_message(key, message, fwd_from)
    /\ ev' = ObserveNew(message)
    /\ classified' = IF ev'.call THEN classified \cup {key} ELSE classified

MessageEdited(key, message, fwd_from) ==
    /\ Running("main.py") /\ UNCHANGED Environment
    /\ on_edited_message(key, message, fwd_from)
    /\ ev' = ObserveEdit(key, message)
    /\ UNCHANGED classified

LookupResumed(i, result) ==
    /\ Running("main.py") /\ UNCHANGED Environment
    /\ LookupReturn(i, result)
    /\ ev' = NoEvent
    /\ UNCHANGED classified

SendResumed(i, outcome) ==
    /\ Running("main.py") /\ UNCHANGED Environment
    /\ SendReturn(i, outcome)
    /\ ev' = NoEvent
    /\ UNCHANGED classified

\* An exception has left the handler: the coroutine the script registered
\* ended by raising.
UnhandledIn(handler) == [type |-> "Unhandled", handler |-> handler]

StartCommand(user_id) ==
    /\ Running("main.py") /\ UNCHANGED Environment
    /\ start_handler(user_id)
    /\ ev' = IF StoreRaises THEN UnhandledIn("start_handler") ELSE NoEvent
    /\ UNCHANGED classified

CallbackQuery(user_id, data) ==
    /\ Running("main.py") /\ UNCHANGED Environment
    /\ callback_query_handler(user_id, data)
    /\ ev' = IF data = "unsubscribe_me" /\ StoreRaises
             THEN UnhandledIn("callback_query_handler")
             ELSE NoEvent
    /\ UNCHANGED classified

\* The button "Get XAUUSD Price", with what the request met and how
\* fetch_xauusd_price ended.
PriceQuery(user_id, response) ==
    /\ Running("main.py") /\ UNCHANGED Environment
    /\ callback_query_handler(user_id, "get_xauusd_price")
    /\ \E outcome \in fetch_xauusd_price(response) :
          ev' = IF outcome.type = "raise"
                THEN UnhandledIn("callback_query_handler")
                     @@ [user_id |-> user_id, requests |-> outcome.requests]
                ELSE [ type     |-> "CallbackQuery",
                       user_id  |-> user_id,
                       failed   |-> response \notin {RespPrice},
                       requests |-> outcome.requests,
                       answer   |-> price_answer(user_id, outcome.price) ]
    /\ UNCHANGED classified

\* The script from its first line to the registration of its handlers: the
\* module level exits on a configuration that is not complete, main returns
\* when a client does not start, and otherwise the handlers are registered.
Startup(user_start, bot_start) ==
    /\ process = "starting"
    /\ process' = IF ~ConfigValidated(script) \/ ~UserIdsParsed(script)
                     THEN "exited"
                  ELSE IF user_start # "ok" \/ bot_start # "ok"
                     THEN "exited"
                  ELSE "running"
    /\ ev' = NoEvent
    /\ UNCHANGED <<matched_call_texts, subscribed_users, tasks, classified,
                   script, environ, db>>

\* subscribers.db becomes unavailable, or available again.
DbChange ==
    /\ Running("main.py")
    /\ db' = IF db = "ok" THEN "unavailable" ELSE "ok"
    /\ ev' = NoEvent
    /\ UNCHANGED <<matched_call_texts, subscribed_users, tasks, classified,
                   script, environ, process>>

bot_NewMessage(key, message, fwd_from) ==
    /\ Running("bot.py") /\ UNCHANGED Environment
    /\ bot_handler(key, message, fwd_from)
    /\ ev' = NoEvent
    /\ UNCHANGED classified

bot_SendResumed(i, outcome) ==
    /\ Running("bot.py") /\ UNCHANGED Environment
    /\ bot_SendReturn(i, outcome)
    /\ ev' = NoEvent
    /\ UNCHANGED classified

\* A new message in a monitored channel, with its text and whether the
\* handler went on to forward it.
SeenNewMessage(key, message, fwd_from) ==
    /\ Running("main.py") /\ UNCHANGED Environment
    /\ on_new_message(key, message, fwd_from)
    /\ ev' = [type |-> "NewMessage", message |-> message, forwarded |-> tasks' # tasks]
    /\ classified' = IF ObserveNew(message).call THEN classified \cup {key} ELSE classified

bot_SeenNewMessage(key, message, fwd_from) ==
    /\ Running("bot.py") /\ UNCHANGED Environment
    /\ bot_handler(key, message, fwd_from)
    /\ ev' = [type |-> "NewMessage", message |-> message, forwarded |-> tasks' # tasks]
    /\ UNCHANGED classified

\* /start and the button "Unsubscribe" with a record, kept from one of these
\* events to the next, of the last of them that each user sent.
LastActions(users) ==
    IF ev.type = "Subscription" THEN ev.last ELSE [u \in users |-> "none"]

SeenStartCommand(users, user_id) ==
    /\ Running("main.py") /\ UNCHANGED Environment
    /\ start_handler(user_id)
    /\ ev' = [ type    |-> "Subscription",
               user_id |-> user_id,
               last    |-> [LastActions(users) EXCEPT ![user_id] = "/start"] ]
    /\ UNCHANGED classified

SeenUnsubscribe(users, user_id) ==
    /\ Running("main.py") /\ UNCHANGED Environment
    /\ callback_query_handler(user_id, "unsubscribe_me")
    /\ ev' = [ type    |-> "Subscription",
               user_id |-> user_id,
               last    |-> [LastActions(users) EXCEPT ![user_id] = "unsubscribe_me"] ]
    /\ UNCHANGED classified

SubscriptionSteps(users) ==
    \/ \E user_id \in users : SeenStartCommand(users, user_id)
    \/ \E user_id \in users : SeenUnsubscribe(users, user_id)

\* The functions of the store called on their own: the rows after the call,
\* and whether the call raised.
StoreAdd(user_id) ==
    /\ Running("main.py") /\ UNCHANGED Environment
    /\ subscribed_users' = IF InsertRaises(user_id) THEN subscribed_users
                           ELSE add_subscribed_user(user_id)
    /\ ev' = [ type    |-> "add_subscribed_user",
               user_id |-> user_id,
               held    |-> is_user_subscribed(user_id),
               raised  |-> InsertRaises(user_id) ]
    /\ UNCHANGED <<matched_call_texts, tasks, classified>>

StoreRemove(user_id) ==
    /\ Running("main.py") /\ UNCHANGED Environment
    /\ subscribed_users' = remove_subscribed_user(user_id)
    /\ ev' = [ type    |-> "remove_subscribed_user",
               user_id |-> user_id,
               held    |-> is_user_subscribed(user_id),
               raised  |-> FALSE ]
    /\ UNCHANGED <<matched_call_texts, tasks, classified>>

StoreSteps(users) ==
    \/ \E user_id \in users : StoreAdd(user_id)
    \/ \E user_id \in users : StoreRemove(user_id)

\* The steps of the handlers, with the events drawn from the given sets and
\* at most `maxTasks` handler invocations reaching the fan-out.
MessageSteps(keys, messages, fwds, maxTasks) ==
    \/ \E key \in keys, message \in messages, fwd_from \in fwds :
            NewMessage(key, message, fwd_from) /\ Len(tasks') <= maxTasks
    \/ \E key \in keys, message \in messages, fwd_from \in fwds :
            MessageEdited(key, message, fwd_from) /\ Len(tasks') <= maxTasks

LookupSteps(results) ==
    \E i \in 1..Len(tasks), result \in results : LookupResumed(i, result)

SendSteps(outcomes) ==
    \E i \in 1..Len(tasks), outcome \in outcomes : SendResumed(i, outcome)

bot_Steps(keys, messages, fwds, outcomes, maxTasks) ==
    \/ \E key \in keys, message \in messages, fwd_from \in fwds :
            bot_NewMessage(key, message, fwd_from) /\ Len(tasks') <= maxTasks
    \/ \E i \in 1..Len(tasks), outcome \in outcomes : bot_SendResumed(i, outcome)

PriceSteps(users, responses) ==
    \E user_id \in users, response \in responses : PriceQuery(user_id, response)

UserSteps(users) ==
    \/ \E user_id \in users : StartCommand(user_id)
    \/ \E user_id \in users, data \in CallbackData : CallbackQuery(user_id, data)

(* The reconciler: every text on two messages without a forward header, one
   user.                                                                   *)
Init == InitOver({1})

Next ==
    \/ MessageSteps(Keys, Messages, {NoFwd}, MaxTasks)
    \/ SendSteps(SendOutcomes)
    \/ UserSteps({1})

Spec == Init /\ [][Next]_vars

(* One message without a forward header through a new message and two
   edits, one user.                                                        *)
KeyOne == <<100, 1>>

InitE2E == InitOver({1})

NextE2E ==
    \/ MessageSteps({KeyOne}, {TxtBuy, TxtHold}, {NoFwd}, MaxTasksE2E)
    \/ SendSteps({"ok", "RPCError"})
    \/ UserSteps({1})

SpecE2E == InitE2E /\ [][NextE2E]_vars

(* Handlers of one message interleaving at the lookup of the forward header
   and at the sends, one user.                                             *)
InitInterleave == InitOver({1})

NextInterleave ==
    \/ MessageSteps({KeyOne}, {TxtBuy, TxtHold}, {NoFwd, FwdById}, MaxTasksInterleave)
    \/ LookupSteps({EntityChannel})
    \/ SendSteps({"ok", "RPCError"})
    \/ UserSteps({1})

SpecInterleave == InitInterleave /\ [][NextInterleave]_vars

(* The fan-out of one signal to three users, every outcome of a send, by
   main.py or by bot.py.                                                   *)
InitFanout == InitOver({1, 2, 3}) \/ bot_Init

NextFanout ==
    \/ MessageSteps({KeyOne}, {TxtBuy}, {NoFwd, FwdById}, MaxTasksFanout)
    \/ LookupSteps({EntityUser})
    \/ SendSteps(SendOutcomes)
    \/ UserSteps({1, 2, 3})
    \/ bot_Steps({KeyOne}, {TxtXauBuy, TxtBuy, TxtBlank}, {NoFwd, FwdById},
                 SendOutcomes, MaxTasksFanout)

SpecFanout == InitFanout /\ [][NextFanout]_vars

(* The subscriber store: its functions called in any order on any rows.   *)
StoreUsers == {1, 2, 3, 4}

InitStore == InitOver(StoreUsers)

NextStore ==
    \/ StoreSteps(StoreUsers)
    \/ UserSteps(StoreUsers)

SpecStore == InitStore /\ [][NextStore]_vars

(* /start and unsubscribe of four users in any order, on any rows that an
   earlier run left in the table.                                          *)
InitMembership == InitOver(StoreUsers)

NextMembership == SubscriptionSteps(StoreUsers)

SpecMembership == InitMembership /\ [][NextMembership]_vars

(* The origin of a forwarded signal: every kind of forward header and every
   result of the lookup, one user.                                         *)
InitOrigin == InitOver({1})

NextOrigin ==
    \/ MessageSteps({KeyOne}, {TxtBuy, TxtHold}, FwdInputs, MaxTasksOrigin)
    \/ LookupSteps(LookupResults)
    \/ SendSteps({"ok", "RPCError"})
    \/ UserSteps({1})

SpecOrigin == InitOrigin /\ [][NextOrigin]_vars

(* The handlers of main.py while subscribers.db comes and goes, one user.   *)
InitFault == InitOver({1})

NextFault ==
    \/ MessageSteps({KeyOne}, {TxtBuy, TxtHold}, {NoFwd, FwdById}, MaxTasksFault)
    \/ LookupSteps({EntityChannel})
    \/ SendSteps({"ok", "RPCError"})
    \/ UserSteps({1})
    \/ DbChange

SpecFault == InitFault /\ [][NextFault]_vars

(* The price button pressed by two users between the other events, every
   response of the price service.                                          *)
InitPrice == InitOver({1, 2})

NextPrice ==
    \/ PriceSteps({1, 2}, Responses)
    \/ MessageSteps({KeyOne}, {TxtBuy, TxtHold}, {NoFwd}, MaxTasksPrice)
    \/ SendSteps({"ok", "RPCError"})
    \/ UserSteps({1, 2})

SpecPrice == InitPrice /\ [][NextPrice]_vars

(* The fan-out of one handler of main.py between /start, unsubscribe and
   further events of the channel, where every send_message returns.        *)
InitLive == InitOver({1, 2})

NextLive ==
    \/ MessageSteps({KeyOne}, {TxtBuy, TxtHold}, {NoFwd}, MaxTasksLive)
    \/ SendSteps(SendOutcomes)
    \/ UserSteps({1, 2})

\* An awaited send_message returns or raises; the event loop then resumes
\* the handler that awaits it.
SendsReturn ==
    \A i \in 1..MaxTasksLive :
        WF_vars(\E outcome \in SendOutcomes : SendResumed(i, outcome))

SpecLive == InitLive /\ [][NextLive]_vars /\ SendsReturn

(* Either script started under every environment.                          *)
InitConfig ==
    /\ matched_call_texts = << >>
    /\ script \in {"main.py", "bot.py"}
    /\ subscribed_users \in SUBSET {1}
    /\ script = "bot.py" => subscribed_users = {}
    /\ tasks = <<>>
    /\ ev = NoEvent
    /\ classified = {}
    /\ environ \in [ConfigNames -> UNION {EnvValues(name) : name \in ConfigNames}]
    /\ \A name \in ConfigNames : environ[name] \in EnvValues(name)
    /\ process = "starting"
    /\ db = "ok"

NextConfig ==
    \/ \E user_start, bot_start \in StartOutcomes : Startup(user_start, bot_start)
    \/ MessageSteps({KeyOne}, {TxtBuy}, {NoFwd}, MaxTasksConfig)
    \/ SendSteps({"ok", "RPCError"})
    \/ UserSteps({1})
    \/ PriceSteps({1}, {RespPrice, RespStatusError})
    \/ bot_Steps({KeyOne}, {TxtXauBuy}, {NoFwd}, {"ok", "RPCError"}, MaxTasksConfig)

SpecConfig == InitConfig /\ [][NextConfig]_vars

(* The classifiers of the two scripts on every text of Texts: new messages
   arrive until one is forwarded.                                          *)
InitClassify == InitOver({1}) \/ bot_Init

NextClassify ==
    \/ \E message \in Texts \cup {None} :
            tasks = <<>> /\ SeenNewMessage(KeyOne, message, NoFwd)
    \/ \E message \in Texts \cup {None} :
            tasks = <<>> /\ bot_SeenNewMessage(KeyOne, message, NoFwd)

SpecClassify == InitClassify /\ [][NextClassify]_vars

(***************************************************************************)
(* Properties                                                              *)
(***************************************************************************)
Last(q) == q[Len(q)]

\* The users a handler has sent to or is sending to, in order.
Attempted(t) == [n \in 1..Len(t.report) |-> t.report[n].user_id]

IsEdit(e) == e.type = "MessageEdited"

\* An edit of a message the dict does not hold.
EditUntracked(e) == IsEdit(e) /\ ~e.tracked

\* An edit of a tracked message to the stored text, up to surrounding
\* whitespace.
EditUnchanged(e) == IsEdit(e) /\ e.tracked /\ e.same

\* An edit of a tracked message to another text.
EditChanged(e) == IsEdit(e) /\ e.tracked /\ ~e.same

\* C1: an edit of a message that has no record changes neither the dict nor
\* the handlers in flight (nothing is stored, nothing is sent), whatever its
\* text.
C1_UntrackedEditIgnored ==
    [][EditUntracked(ev') => UNCHANGED <<matched_call_texts, tasks>>]_vars

\* An edit whose text matches the pattern arrived for a message without a
\* record, while another message has one.
C1_Witness ==
    /\ EditUntracked(ev) /\ ev.call
    /\ DOMAIN matched_call_texts # {}

\* C2: the dict holds a key exactly when a new-message event for that key
\* carried a text that is not blank and matches the pattern.
C2_RecordIffClassified == DOMAIN matched_call_texts = classified

\* One message is tracked, and an edit with a matching text has just been
\* seen on the other, which stays without a record.
C2_Witness ==
    /\ classified # {} /\ classified # Keys
    /\ EditUntracked(ev) /\ ev.call
    /\ \E i \in 1..Len(tasks) : tasks[i].handler = "on_edited_message"

\* C3: an edit of a tracked message whose text equals the stored text after
\* strip() on both sides changes neither the dict nor the handlers in flight.
C3_UnchangedEditSuppressed ==
    [][EditUnchanged(ev') => UNCHANGED <<matched_call_texts, tasks>>]_vars

\* The edit carried a text that differs from the stored text in its
\* surrounding whitespace only.
C3_Witness == EditUnchanged(ev) /\ ~ev.identical

\* C4: after an edit of a tracked message to another text the dict holds the
\* new text and a handler is forwarding it as an edit; the same edit event
\* once more, as the next step, changes nothing.
C4_ChangedState ==
    EditChanged(ev) =>
        /\ matched_call_texts[ev.key] = OrEmpty(ev.message)
        /\ tasks # <<>>
        /\ Last(tasks).handler = "on_edited_message"
        /\ Last(tasks).key = ev.key
        /\ Last(tasks).message_text = OrEmpty(ev.message)
        /\ Last(tasks).pc \in {"lookup", "send", "done"}

C4_RepeatedEdit ==
    (EditChanged(ev) /\ \E fwd_from \in {NoFwd, FwdByName, FwdById, FwdHidden} :
            MessageEdited(ev.key, ev.message, fwd_from))
        => UNCHANGED <<matched_call_texts, tasks>>

C4_ChangedThenIdempotent == [](C4_ChangedState) /\ [][C4_RepeatedEdit]_vars

\* The text of the last edit that was forwarded has arrived once more, while
\* the handler of that edit is still sending.
C4_Witness ==
    /\ EditUnchanged(ev) /\ ev.identical
    /\ tasks # <<>>
    /\ Last(tasks).handler = "on_edited_message"
    /\ Last(tasks).pc = "send"
    /\ matched_call_texts[Last(tasks).key] = Last(tasks).message_text

\* C5: an edit of a tracked message to another text is forwarded whether or
\* not the new text matches the pattern: its handler has read the
\* subscribers and is sending to them, and a handler of an edit that has
\* ended has sent to every subscriber it read.
C5_EditForwardedWithoutClassifier ==
    /\ EditChanged(ev) =>
          /\ tasks # <<>>
          /\ Last(tasks).handler = "on_edited_message"
          /\ Last(tasks).message_text = OrEmpty(ev.message)
          /\ Last(tasks).fwd_from = NoFwd =>
                /\ Last(tasks).subscribed_users = get_all_subscribed_users
                /\ Last(tasks).pc = IF subscribed_users = {} THEN "done" ELSE "send"
    /\ \A i \in 1..Len(tasks) :
          tasks[i].handler = "on_edited_message" /\ tasks[i].pc = "done"
              => Attempted(tasks[i]) = tasks[i].subscribed_users

\* The edit of a signal to a whitespace-only text has been sent to the
\* subscriber.
C5_Witness ==
    \E i \in 1..Len(tasks) :
        /\ tasks[i].handler = "on_edited_message"
        /\ tasks[i].message_text # <<>>
        /\ strip(tasks[i].message_text) = <<>>
        /\ tasks[i].pc = "done"
        /\ tasks[i].report # <<>>

\* The handlers of a key, in the order they started.
TasksOf(key) == {i \in 1..Len(tasks) : tasks[i].key = key}

Latest(key) == tasks[CHOOSE i \in TasksOf(key) : \A j \in TasksOf(key) : j <= i]

\* A handler and the next handler of the same message.
Consecutive(i, j) ==
    /\ i < j
    /\ tasks[i].key = tasks[j].key
    /\ \A m \in (i + 1)..(j - 1) : tasks[m].key # tasks[i].key

\* What a handler that has read the subscribers has sent: to the users it
\* read, in order, each once, and to all of them when it has ended.
SentToSnapshot(t) ==
    /\ Len(t.report) <= Len(t.subscribed_users)
    /\ Attempted(t) = SubSeq(t.subscribed_users, 1, Len(t.report))
    /\ t.pc = "done" => Len(t.report) = Len(t.subscribed_users)

\* C6: a new signal without a forward header is sent with the header "New
\* Signal" to the subscribers the table holds at that time; an edit of the
\* message to a text that differs from the text forwarded last starts
\* exactly one more fan-out, with the header "Edited Signal": the comparison
\* is with the text of the previous edit, so an edit back to the original
\* text is sent as well.
C6_Headers ==
    \A i \in 1..Len(tasks) :
        tasks[i].pc \in {"send", "done"} =>
            /\ forward_text(tasks[i]).header =
                  IF tasks[i].handler = "on_new_message" THEN "New Signal" ELSE "Edited Signal"
            /\ tasks[i].fwd_from = NoFwd => forward_text(tasks[i]).forwarded = None
            /\ forward_text(tasks[i]).body = escape_html(tasks[i].message_text)
            /\ SentToSnapshot(tasks[i])

C6_NewStep ==
    (ev'.type = "NewMessage" /\ ev'.call) =>
        /\ Len(tasks') = Len(tasks) + 1
        /\ SubSeq(tasks', 1, Len(tasks)) = tasks
        /\ Last(tasks').handler = "on_new_message"
        /\ Last(tasks').fwd_from = NoFwd =>
              Last(tasks').subscribed_users = get_all_subscribed_users

C6_EditStep ==
    \A key \in Keys, message \in Messages :
        ( /\ TasksOf(key) # {}
          /\ strip(OrEmpty(message)) # strip(Latest(key).message_text)
          /\ MessageEdited(key, message, NoFwd) ) =>
            /\ Len(tasks') = Len(tasks) + 1
            /\ SubSeq(tasks', 1, Len(tasks)) = tasks
            /\ Last(tasks').handler = "on_edited_message"
            /\ Last(tasks').key = key
            /\ Last(tasks').message_text = OrEmpty(message)
            /\ Last(tasks').subscribed_users = get_all_subscribed_users

C6_NewThenEdits ==
    [](C6_Headers) /\ [][C6_NewStep]_vars /\ [][C6_EditStep]_vars

\* A signal, its edit to another text and its edit back to the first text
\* have each been sent to the subscriber, the first as new, the others as
\* edited.
C6_Witness ==
    /\ Len(tasks) = 3
    /\ tasks[1].handler = "on_new_message"
    /\ tasks[2].handler = "on_edited_message"
    /\ tasks[3].handler = "on_edited_message"
    /\ tasks[2].message_text # tasks[1].message_text
    /\ tasks[3].message_text = tasks[1].message_text
    /\ \A i \in 1..3 :
          /\ tasks[i].key = tasks[1].key
          /\ tasks[i].pc = "done"
          /\ Len(tasks[i].report) = 1

\* C7: a handler of an edit has stored its text before it first suspends:
\* the dict holds, for every message, the text of the handler of that
\* message that started last; and of two edits of a message with the same
\* text that are handled one after the other, only the first is forwarded,
\* however the handlers interleave.
C7_AtomicReadModifyWrite ==
    /\ \A i \in 1..Len(tasks) : tasks[i].key \in DOMAIN matched_call_texts
    /\ \A key \in DOMAIN matched_call_texts :
          /\ TasksOf(key) # {}
          /\ matched_call_texts[key] = Latest(key).message_text
    /\ \A i, j \in 1..Len(tasks) :
          Consecutive(i, j) /\ tasks[j].handler = "on_edited_message"
              => strip(tasks[j].message_text) # strip(tasks[i].message_text)

\* An edit with the text of the edit before it arrived while the handler of
\* that edit was waiting for the lookup of the forward header.
C7_Witness ==
    /\ EditUnchanged(ev) /\ ev.identical
    /\ tasks # <<>>
    /\ Last(tasks).handler = "on_edited_message"
    /\ Last(tasks).pc = "lookup"

\* C8: no error of a send ends the loop, in main.py and in bot.py: a
\* handler never leaves the loop by an exception, a handler that has ended
\* has sent to every user it read, and after a failed send the loop is at
\* the next user.
C8_FailureDoesNotAbort ==
    \A i \in 1..Len(tasks) :
        LET t == tasks[i]
        IN  /\ t.pc # "raised"
            /\ t.pc = "done" =>
                  \A n \in 1..Len(t.subscribed_users) :
                      \E m \in 1..Len(t.report) : t.report[m].user_id = t.subscribed_users[n]
            /\ t.pc = "send" => Len(t.report) < Len(t.subscribed_users)

\* Of the recipients 1, 2 and 3 the send to 2 failed and the sends to 1 and
\* 3 succeeded.
C8_Witness ==
    \E i \in 1..Len(tasks) :
        /\ tasks[i].pc = "done"
        /\ tasks[i].subscribed_users = <<1, 2, 3>>
        /\ tasks[i].report = << [user_id |-> 1, result |-> "ok"],
                                [user_id |-> 2, result |-> "error"],
                                [user_id |-> 3, result |-> "ok"] >>

\* C9: a handler of main.py sends to no user twice, whether the send
\* succeeded or failed.
C9_NoRetry ==
    script = "main.py" =>
    \A i \in 1..Len(tasks) :
        \A m, n \in 1..Len(tasks[i].report) :
            m # n => tasks[i].report[m].user_id # tasks[i].report[n].user_id

\* A handler has ended after a failed send to its first recipient and a
\* send to its second.
C9_Witness ==
    \E i \in 1..Len(tasks) :
        /\ tasks[i].pc = "done"
        /\ Len(tasks[i].report) >= 2
        /\ tasks[i].report[1].result = "error"

\* C10: a handler of main.py reads the subscribers once, when it starts the fan-out,
\* and sends to the users it read then, whatever /start and unsubscribe do
\* to the table in the meantime.
C10_Targets ==
    script = "main.py" =>
    \A i \in 1..Len(tasks) :
        tasks[i].pc \in {"send", "done"} => SentToSnapshot(tasks[i])

C10_ReadOnce ==
    script = "main.py" =>
    \A i \in 1..Len(tasks') :
        IF i <= Len(tasks) /\ tasks[i].pc \in {"send", "done"}
        THEN tasks'[i].subscribed_users = tasks[i].subscribed_users
        ELSE tasks'[i].pc \in {"send", "done"} =>
                tasks'[i].subscribed_users = get_all_subscribed_users

C10_SnapshotPerNotification == [](C10_Targets) /\ [][C10_ReadOnce]_vars

\* A handler has ended that sent to a user who unsubscribed after the read
\* and did not send to a user who subscribed after it.
C10_Witness ==
    \E i \in 1..Len(tasks) :
        /\ tasks[i].pc = "done"
        /\ \E n \in 1..Len(tasks[i].report) :
              tasks[i].report[n].user_id \notin subscribed_users
        /\ \E u \in subscribed_users :
              \A n \in 1..Len(tasks[i].subscribed_users) : tasks[i].subscribed_users[n] # u

\* C11: a handler that reads an empty table sends to nobody and ends
\* normally in the same step: it never waits for a send, it does not end by
\* an exception, and its record of attempts is empty.
C11_EmptyState ==
    \A i \in 1..Len(tasks) :
        (tasks[i].pc \in {"send", "done", "raised"} /\ tasks[i].subscribed_users = <<>>) =>
            tasks[i].pc = "done" /\ tasks[i].report = <<>>

C11_EmptyStep ==
    \A i \in 1..Len(tasks') :
        ( /\ i > Len(tasks) \/ tasks[i].pc = "lookup"
          /\ get_all_subscribed_users = <<>> ) =>
            tasks'[i].pc \in {"lookup", "done"}

C12_AddHeld ==
    \A user_id \in StoreUsers :
        (StoreAdd(user_id) /\ is_user_subscribed(user_id)) =>
            /\ subscribed_users' = subscribed_users
            /\ Cardinality({u \in subscribed_users' : u = user_id}) = 1
            /\ ~ev'.raised

C12_RemoveAbsent ==
    \A user_id \in StoreUsers :
        (StoreRemove(user_id) /\ ~is_user_subscribed(user_id)) =>
            /\ subscribed_users' = subscribed_users
            /\ ~ev'.raised

C12_Raised ==
    ev.type \in {"add_subscribed_user", "remove_subscribed_user"} => ~ev.raised

C12_MutatorsIdempotent ==
    [](C12_Raised) /\ [][C12_AddHeld]_vars /\ [][C12_RemoveAbsent]_vars

\* add_subscribed_user has just been called for a user the table held, and
\* the table holds other users too.
C12_Witness ==
    /\ ev.type = "add_subscribed_user" /\ ev.held
    /\ ev.user_id \in subscribed_users
    /\ subscribed_users # {ev.user_id}

\* remove_subscribed_user has just been called on the empty table.
C12_WitnessRemove ==
    /\ ev.type = "remove_subscribed_user" /\ ~ev.held
    /\ subscribed_users = {}

\* A directional keyword stands at offset j of s as a whole word: no letter,
\* digit or underscore touches it on either side.
KeywordWordAt(s, j) ==
    \E w \in DirectionalKeywords :
        /\ LiteralAt(s, j, w)
        /\ j = 0 \/ ~IsWordChar(s[j])
        /\ j + Len(w) = Len(s) \/ ~IsWordChar(s[j + Len(w) + 1])

HasKeywordWord(s) == \E j \in 0..Len(s) : KeywordWordAt(s, j)

\* C13: a new message that either script forwards contains a directional
\* keyword as a whole word.
C13_NoKeywordNotSignal ==
    (ev.type = "NewMessage" /\ ev.forwarded) => HasKeywordWord(OrEmpty(ev.message))

\* C14: bot.py forwards a text that is not blank exactly when the text
\* starts with the instrument and a directional keyword stands as a whole
\* word somewhere after it, on the same line or on a later one.
C14_StrictExactly ==
    ( /\ script = "bot.py"
      /\ ev.type = "NewMessage"
      /\ strip(OrEmpty(ev.message)) # <<>> ) =>
        ( ev.forwarded <=>
            /\ LiteralAt(OrEmpty(ev.message), 0, Instrument)
            /\ \E j \in Len(Instrument)..Len(OrEmpty(ev.message)) :
                  KeywordWordAt(OrEmpty(ev.message), j) )

Unknown == <<"U","n","k","n","o","w","n">>

\* C15: the lookup of the origin never ends a handler by an exception, and
\* is awaited only for a forward header with an identifier and no name; a
\* text for a message without forward header has no line for the origin and
\* no lookup was made; a text for a forwarded message names an origin that
\* is not empty: the name of the header if it has one, "Unknown" if the
\* lookup raised or the header has neither name nor identifier.
C15_OriginResolved ==
    \A i \in 1..Len(tasks) :
        LET t == tasks[i]
            forwarded == forward_text(t).forwarded
        IN  /\ t.pc # "raised"
            /\ t.pc = "lookup" => NeedsLookup(t.fwd_from)
            /\ t.pc \in {"send", "done"} =>
                  IF t.fwd_from = NoFwd
                  THEN forwarded = None /\ t.from_entity = NoResult
                  ELSE /\ forwarded \notin {None, <<>>}
                       /\ t.from_entity.type = "raise" => forwarded = Unknown
                       /\ t.fwd_from.from_name \notin {None, <<>>} =>
                             /\ forwarded = escape_html(t.fwd_from.from_name)
                             /\ t.from_entity = NoResult
                       /\ (t.fwd_from.from_name \in {None, <<>>} /\ t.fwd_from.from_id = None) =>
                             forwarded = Unknown /\ t.from_entity = NoResult

\* The text of a forwarded signal whose lookup raised has been sent.
C15_Witness ==
    \E i \in 1..Len(tasks) :
        /\ tasks[i].from_entity.type = "raise"
        /\ tasks[i].pc = "done"
        /\ tasks[i].report # <<>>
        /\ forward_text(tasks[i]).forwarded = Unknown

\* C16: no exception leaves a handler: none of the four handlers ends by
\* raising to the library that called it.
C16_CaughtAtBoundary ==
    /\ ev.type # "Unhandled"
    /\ \A i \in 1..Len(tasks) : tasks[i].pc # "raised"

\* C17: a press of the price button makes one request and no exception
\* leaves fetch_xauusd_price; when the request fails, the status is not a
\* success or the body has no price, the user who pressed the button, and
\* only that user, is asked to try again later.
C17_OracleNeverRaises ==
    /\ ev.type # "Unhandled"
    /\ ev.type = "CallbackQuery" =>
          /\ ev.requests = 1
          /\ ev.answer.to = ev.user_id
          /\ ev.failed => ev.answer.price = None

\* C18: in a run where a required environment variable is not set or is
\* empty, the handlers are never registered and no event is handled: the
\* process does not run, and the dict, the table and the dispatches stay as
\* the start found them.
C18_Required ==
    IF script = "bot.py"
    THEN {"TELEGRAM_API_ID", "TELEGRAM_API_HASH", "BOT_TOKEN", "TARGET_CHANNELS", "NOTIFY_USER_IDS"}
    ELSE {"TELEGRAM_API_ID", "TELEGRAM_API_HASH", "BOT_TOKEN", "TARGET_CHANNELS"}

C18_Missing == \E name \in C18_Required : environ[name] \in {None, <<>>}

C20_MessageEvent(e) == e.type \in {"NewMessage", "MessageEdited"}

C21_OwnLastAction ==
    ev.type = "Subscription" =>
        \A u \in DOMAIN ev.last :
            /\ ev.last[u] = "/start" => u \in subscribed_users
            /\ ev.last[u] = "unsubscribe_me" => u \notin subscribed_users

C21_OthersKept ==
    ev'.type = "Subscription" =>
        \A u \in DOMAIN ev'.last :
            u # ev'.user_id => (u \in subscribed_users' <=> u \in subscribed_users)

C21_Membership == [](C21_OwnLastAction) /\ [][C21_OthersKept]_vars

\* The last event of user 1 was "Unsubscribe" and the last event of user 2
\* was /start; user 3, who sent nothing, keeps the row an earlier run left,
\* and user 4, who sent nothing either, has none.
C21_Witness ==
    /\ ev.type = "Subscription"
    /\ ev.last = [u \in StoreUsers |->
                    IF u = 1 THEN "unsubscribe_me" ELSE IF u = 2 THEN "/start" ELSE "none"]
    /\ subscribed_users = {2, 3}

\* C22: no user is sent the "Edited Signal" of a message while the handler
\* of the new message has yet to send that user its "New Signal".
\* The users for whom a handler has called send_message.
C22_Issued(t) ==
    IF t.pc = "send"
    THEN {t.subscribed_users[n] : n \in 1..RecipientIndex(t)}
    ELSE {t.report[n].user_id : n \in 1..Len(t.report)}

\* The handler has not called send_message for u yet and is on its way to.
C22_Pending(t, u) ==
    \/ t.pc = "lookup"
    \/ /\ t.pc = "send"
       /\ \E n \in 1..Len(t.subscribed_users) : t.subscribed_users[n] = u
       /\ u \notin C22_Issued(t)

C22_NewBeforeEdited ==
    \A i, j \in 1..Len(tasks) :
        (/\ tasks[i].handler = "on_new_message"
         /\ tasks[j].handler = "on_edited_message"
         /\ tasks[i].key = tasks[j].key
         /\ \A k \in 1..Len(tasks) :
               tasks[k].handler = "on_new_message" /\ tasks[k].key = tasks[i].key => k = i)
        => \A u \in C22_Issued(tasks[j]) : ~C22_Pending(tasks[i], u)

\* A press of the price button changes neither the table, nor the dict, nor
\* a handler in flight.
PriceFrame ==
    [][ev'.type \in {"CallbackQuery", "Unhandled"} =>
          UNCHANGED <<subscribed_users, matched_call_texts, tasks>>]_vars
====
